---- MODULE Spec2Model ----
(***************************************************************************)
(* Model of pipeline/recon/helpers.py of recon-pipeline: the requirement   *)
(* gate (meets_requirements, get_tool_state), the capability registry      *)
(* (get_scans), the scope engine (is_inscope), and the run() contract of   *)
(* a scan task as exercised by tests/test_web/test_subdomain_takeover.py.  *)
(*                                                                         *)
(* Names, hostnames and regular expressions are sequences of one-character *)
(* strings, so that prefix/suffix tests, lower-casing, metacharacter       *)
(* stripping and regular-expression search are computed, not assumed.      *)
(***************************************************************************)
EXTENDS Integers, Sequences, FiniteSets, TLC

VARIABLES
    tool_state,     \* the .tool-dict.pkl snapshot on disk
    requirements,   \* meets_requirements: argument
    exception,      \* meets_requirements: argument
    gate_pc,        \* "call" before meets_requirements has run, "returned" after
    gate_result,    \* meets_requirements: what the call produced
    mods,           \* the plugin modules found under the package roots
    reg_pc,         \* "call", "returned" or "raised" (get_scans)
    scans,          \* get_scans: the returned mapping
    hostname,       \* is_inscope: argument
    scope_file,     \* is_inscope: argument (the parsed scope file, or none)
    scope_pc,       \* "call" or "returned" (is_inscope)
    in_scope,       \* is_inscope: the running / returned verdict
    task_state,     \* scan task: state of the task
    targets,        \* scan task: what get_all_hostnames() returns
    spawned,        \* scan task: subprocess.run was called
    parse_called,   \* scan task: parse_results was called
    tool_status,    \* scan task: "none", "ok" or "failed"
    artifact        \* scan task: the output file exists

gate_vars  == <<requirements, exception, gate_pc, gate_result>>
reg_vars   == <<mods, reg_pc, scans>>
scope_vars == <<hostname, scope_file, scope_pc, in_scope>>
task_vars  == <<task_state, targets, spawned, parse_called, tool_status, artifact>>
vars == <<tool_state, gate_vars, reg_vars, scope_vars, task_vars>>

(***************************************************************************)
(* Bounds                                                                  *)
(***************************************************************************)
MaxReqs == 2        \* longest requirements list given to meets_requirements
MaxClassReqs == 1   \* longest requirements list declared by a scan class
MaxExclude == 2     \* most exclude rules in a scope file
MaxInclude == 2     \* most include rules in a scope file
MaxTargets == 2     \* most hostnames returned by get_all_hostnames

SeqsUpTo(S, n) == UNION {[1..k -> S] : k \in 0..n}

(***************************************************************************)
(* Text                                                                    *)
(***************************************************************************)
EXAMPLE == <<"e", "x", "a", "m", "p", "l", "e">>
ADMIN   == <<"a", "d", "m", "i", "n">>
WWW     == <<"w", "w", "w">>
COM     == <<"c", "o", "m">>
ORG     == <<"o", "r", "g">>
DOT     == <<".">>
ESC     == <<"\\">>

h_admin  == ADMIN \o DOT \o EXAMPLE \o DOT \o COM            \* admin.example.com
h_www    == WWW \o DOT \o EXAMPLE \o DOT \o COM              \* www.example.com
h_xadmin == <<"x">> \o ADMIN \o DOT \o EXAMPLE \o DOT \o COM \* xadmin.example.com
h_org    == EXAMPLE \o DOT \o ORG                            \* example.org

Hostnames == {h_admin, h_www, h_xadmin, h_org}

x_example == EXAMPLE \o ESC \o DOT \o COM \o <<"$">>         \* example\.com$
x_www     == WWW                                             \* www
x_admin   == <<"^">> \o ADMIN                                \* ^admin

i_admin   == <<"^">> \o ADMIN \o ESC \o DOT \o EXAMPLE \o ESC \o DOT \o COM \o <<"$">>
                                                             \* ^admin\.example\.com$
i_example == EXAMPLE \o ESC \o DOT \o COM                    \* example\.com
i_www     == <<"^">> \o WWW \o ESC \o DOT                    \* ^www\.

ExcludeRules == {[host |-> x_example], [host |-> x_www], [host |-> x_admin]}
IncludeRules == {[host |-> i_admin], [host |-> i_example], [host |-> i_www]}

(***************************************************************************)
(* re.search for the patterns scope files use here: literals, the escape   *)
(* \c of a non-alphanumeric c, the wildcard ".", and the anchors ^ and $.  *)
(***************************************************************************)
RECURSIVE MatchAt(_, _, _, _)
MatchAt(p, i, s, j) ==
    IF i > Len(p) THEN TRUE
    ELSE IF p[i] = "^" THEN j = 1 /\ MatchAt(p, i + 1, s, j)
    ELSE IF p[i] = "$" THEN j = Len(s) + 1 /\ MatchAt(p, i + 1, s, j)
    ELSE IF p[i] = "\\"
         THEN i + 1 <= Len(p) /\ j <= Len(s) /\ s[j] = p[i + 1]
              /\ MatchAt(p, i + 2, s, j + 1)
    ELSE IF p[i] = "." THEN j <= Len(s) /\ MatchAt(p, i + 1, s, j + 1)
    ELSE j <= Len(s) /\ s[j] = p[i] /\ MatchAt(p, i + 1, s, j + 1)

re_search(pattern, string) ==
    \E j \in 1..(Len(string) + 1) : MatchAt(pattern, 1, string, j)

\* allow['host'].replace('\\', '').replace('^', '').replace('$', '')
IsPlainChar(c) == c \notin {"\\", "^", "$"}
allow_n(allow) == SelectSeq(allow.host, IsPlainChar)

(***************************************************************************)
(* Scope engine: is_inscope                                                *)
(***************************************************************************)
NoScopeFile == [supplied |-> FALSE, exclude |-> <<>>, include |-> <<>>]

ScopeFiles ==
    {NoScopeFile} \cup
    [supplied : {TRUE},
     exclude : SeqsUpTo(ExcludeRules, MaxExclude),
     include : SeqsUpTo(IncludeRules, MaxInclude)]

\* variant: the hostname is tested against the normalized include pattern
AllowVerdictNormalized(block, allow, host) ==
    IF re_search(block.host, allow_n(allow))
    THEN IF re_search(allow_n(allow), host) THEN TRUE ELSE FALSE
    ELSE FALSE

\* the body of the inner loop: one include rule against one matching exclude rule
AllowVerdict(block, allow, host) ==
    IF re_search(block.host, allow_n(allow))
    THEN IF re_search(allow.host, host) THEN TRUE ELSE FALSE
    ELSE FALSE

\* for allow in scope['target']['scope']['include']
RECURSIVE AllowLoop(_, _, _, _, _)
AllowLoop(block, include, host, a, verdict) ==
    IF a > Len(include) THEN verdict
    ELSE AllowLoop(block, include, host, a + 1, AllowVerdict(block, include[a], host))

\* variant: the loop stops at the first exclude rule that matches
RECURSIVE BlockLoopFirstMatch(_, _, _, _, _)
BlockLoopFirstMatch(exclude, include, host, b, verdict) ==
    IF b > Len(exclude) THEN verdict
    ELSE IF re_search(exclude[b].host, host)
         THEN AllowLoop(exclude[b], include, host, 1, verdict)
         ELSE BlockLoopFirstMatch(exclude, include, host, b + 1, verdict)

\* for block in scope['target']['scope']['exclude']
RECURSIVE BlockLoop(_, _, _, _, _)
BlockLoop(exclude, include, host, b, verdict) ==
    IF b > Len(exclude) THEN verdict
    ELSE BlockLoop(exclude, include, host, b + 1,
                   IF re_search(exclude[b].host, host)
                   THEN AllowLoop(exclude[b], include, host, 1, verdict)
                   ELSE verdict)

\* variant: default-deny once a scope file is supplied
is_inscope_deny(host, file) ==
    IF ~file.supplied THEN TRUE
    ELSE BlockLoop(file.exclude, file.include, host, 1, FALSE)

is_inscope(host, file) ==
    IF ~file.supplied THEN TRUE
    ELSE BlockLoop(file.exclude, file.include, host, 1, TRUE)

ScopeIdle ==
    /\ hostname = h_org
    /\ scope_file = NoScopeFile
    /\ scope_pc = "call"
    /\ in_scope = TRUE

InitScopeInputs ==
    /\ hostname \in Hostnames
    /\ scope_file \in ScopeFiles
    /\ scope_pc = "call"
    /\ in_scope = TRUE

IsInscope ==
    /\ scope_pc = "call"
    /\ in_scope' = is_inscope(hostname, scope_file)
    /\ scope_pc' = "returned"
    /\ UNCHANGED <<hostname, scope_file>>

(***************************************************************************)
(* Tool state store and requirement gate                                   *)
(***************************************************************************)
ToolNames == {"nmap", "amass"}

\* a snapshot maps some tool names to {installed: bool, ...}
ToolDicts == UNION {[S -> [installed : BOOLEAN]] : S \in SUBSET ToolNames}
EmptyDict == [t \in {} |-> [installed |-> FALSE]]

\* the snapshot file: missing, or a pickled dict
ToolStateFiles ==
    {[exists |-> FALSE, dict |-> EmptyDict]} \cup [exists : {TRUE}, dict : ToolDicts]

\* returns the dict, or None when the file does not exist
get_tool_state ==
    IF tool_state.exists
    THEN [none |-> FALSE, dict |-> tool_state.dict]
    ELSE [none |-> TRUE, dict |-> EmptyDict]

\* for tool in requirements: one iteration per call, from index i on.
\* outcome: "True"/"False" are return values, the others are the exception raised;
\* examined: how many tools were looked up; message: the tool the error text names.
RECURSIVE ToolLoop(_, _, _, _)
ToolLoop(tools, reqs, exc, i) ==
    IF i > Len(reqs)
    THEN [outcome |-> "True", examined |-> i - 1, message |-> "-"]
    ELSE IF tools.none \/ reqs[i] \notin DOMAIN tools.dict
    THEN \* tools is None, or tools.get(tool) is None: None has no .get
         [outcome |-> "AttributeError", examined |-> i, message |-> "NoneType"]
    ELSE IF ~tools.dict[reqs[i]].installed
    THEN IF exc
         THEN [outcome |-> "RuntimeError", examined |-> i, message |-> reqs[i]]
         ELSE [outcome |-> "False", examined |-> i, message |-> "-"]
    ELSE ToolLoop(tools, reqs, exc, i + 1)

meets_requirements(reqs, exc) == ToolLoop(get_tool_state, reqs, exc, 1)

NoResult == [outcome |-> "pending", examined |-> 0, message |-> "-"]

GateIdle ==
    /\ requirements = <<>>
    /\ exception = FALSE
    /\ gate_pc = "call"
    /\ gate_result = NoResult

InitGateInputs ==
    /\ requirements \in SeqsUpTo(ToolNames, MaxReqs)
    /\ exception \in BOOLEAN
    /\ gate_pc = "call"
    /\ gate_result = NoResult

MeetsRequirements ==
    /\ gate_pc = "call"
    /\ gate_result' = meets_requirements(requirements, exception)
    /\ gate_pc' = "returned"
    /\ UNCHANGED <<requirements, exception>>

(***************************************************************************)
(* Capability registry: get_scans                                          *)
(***************************************************************************)
UPPER == <<"A", "B", "C", "D", "E", "F", "G", "H", "I", "J", "K", "L", "M",
           "N", "O", "P", "Q", "R", "S", "T", "U", "V", "W", "X", "Y", "Z">>
LOWER == <<"a", "b", "c", "d", "e", "f", "g", "h", "i", "j", "k", "l", "m",
           "n", "o", "p", "q", "r", "s", "t", "u", "v", "w", "x", "y", "z">>

lower_char(c) ==
    IF \E k \in 1..Len(UPPER) : UPPER[k] = c
    THEN LOWER[CHOOSE k \in 1..Len(UPPER) : UPPER[k] = c]
    ELSE c
lower(s) == [k \in 1..Len(s) |-> lower_char(s[k])]

startswith(s, prefix) ==
    Len(s) >= Len(prefix) /\ SubSeq(s, 1, Len(prefix)) = prefix
endswith(s, suffix) ==
    Len(s) >= Len(suffix) /\ SubSeq(s, Len(s) - Len(suffix) + 1, Len(s)) = suffix

SCAN == <<"s", "c", "a", "n">>
FooScan == <<"F", "o", "o", "S", "c", "a", "n">>
BARSCAN == <<"B", "A", "R", "S", "C", "A", "N">>
Scanner == <<"S", "c", "a", "n", "n", "e", "r">>
MemberNames == {FooScan, BARSCAN, Scanner}

\* __package__ + "."
PackagePrefix == <<"r", "e", "c", "o", "n", ".">>

\* module names, in the order walk_packages and inspect.getmembers yield them (sorted)
SortedModuleNames == << <<"_", "u", "t", "i", "l">>,
                        <<"a", "m", "a", "s", "s">>,
                        <<"n", "m", "a", "p">> >>
ModuleNames == {SortedModuleNames[k] : k \in 1..Len(SortedModuleNames)}

\* a member of a module: a class (or a function) with or without `requirements`
Members ==
    [name : MemberNames, isclass : {TRUE}, has_requirements : {TRUE},
     requirements : SeqsUpTo(ToolNames, MaxClassReqs)]
    \cup [name : MemberNames, isclass : {TRUE}, has_requirements : {FALSE},
          requirements : {<<>>}]
    \cup [name : {FooScan}, isclass : {FALSE}, has_requirements : {FALSE},
          requirements : {<<>>}]

\* what importing a module does: "ok", or the exception it raises
ImportResults == {"ok", "ModuleNotFoundError", "ImportError"}
NoMember == [name |-> Scanner, isclass |-> FALSE, has_requirements |-> FALSE,
             requirements |-> <<>>]
Modules ==
    [import : {"ok"}, member : Members]
    \cup [import : ImportResults \ {"ok"}, member : {NoMember}]

\* variant: no except clause, every import failure propagates
ImportStepNoExcept(result) ==
    IF result = "ok" THEN "imported" ELSE "raised"

\* try: importlib.import_module(module_name) / except ModuleNotFoundError: pass
ImportStep(result) ==
    IF result = "ok" THEN "imported"
    ELSE IF result = "ModuleNotFoundError" THEN "skipped"
    ELSE "raised"

\* for loader, module_name, is_pkg in pkgutil.walk_packages(...)
RECURSIVE ImportLoop(_, _)
ImportLoop(m, k) ==
    IF k > Len(SortedModuleNames) THEN "done"
    ELSE IF ImportStep(m[SortedModuleNames[k]].import) = "raised" THEN "raised"
    ELSE ImportLoop(m, k + 1)

\* the requirement check of one candidate class: TRUE when it is kept
PassesGate(member) ==
    IF ~member.has_requirements
    THEN TRUE       \* sub_obj.requirements raises AttributeError: allowed through
    ELSE LET r == meets_requirements(member.requirements, FALSE)
         IN  IF r.outcome = "False" THEN FALSE              \* continue
             ELSE IF r.outcome = "True" THEN TRUE
             ELSE r.outcome = "AttributeError"              \* caught: allowed through

IsScanClass(member) == member.isclass /\ endswith(lower(member.name), SCAN)

\* scans[sub_name].append(f"{__package__}.{name}") on a defaultdict(list)
AppendScan(d, sub_name, name) ==
    [key \in DOMAIN d \cup {sub_name} |->
        IF key = sub_name
        THEN (IF sub_name \in DOMAIN d THEN d[sub_name] ELSE <<>>)
             \o <<PackagePrefix \o name>>
        ELSE d[key]]

EmptyScans == [key \in {} |-> <<>>]

\* for name, obj in inspect.getmembers(sys.modules[__package__])
RECURSIVE ModuleLoop(_, _, _)
ModuleLoop(m, k, d) ==
    IF k > Len(SortedModuleNames) THEN d
    ELSE LET name == SortedModuleNames[k]
             obj == m[name]
         IN  ModuleLoop(m, k + 1,
                IF /\ obj.import = "ok"
                   /\ ~startswith(name, <<"_">>)
                   /\ IsScanClass(obj.member)
                   /\ PassesGate(obj.member)
                THEN AppendScan(d, obj.member.name, name)
                ELSE d)

get_scans(m) ==
    IF ImportLoop(m, 1) = "raised"
    THEN [raised |-> TRUE, scans |-> EmptyScans]
    ELSE [raised |-> FALSE, scans |-> ModuleLoop(m, 1, EmptyScans)]

IdleModule ==
    [import |-> "ok",
     member |-> [name |-> Scanner, isclass |-> TRUE, has_requirements |-> FALSE,
                 requirements |-> <<>>]]

RegistryIdle ==
    /\ mods = [name \in ModuleNames |-> IdleModule]
    /\ reg_pc = "call"
    /\ scans = EmptyScans

InitRegistryInputs ==
    /\ mods \in [ModuleNames -> Modules]
    /\ reg_pc = "call"
    /\ scans = EmptyScans

GetScans ==
    /\ reg_pc = "call"
    /\ LET r == get_scans(mods)
       IN  /\ reg_pc' = IF r.raised THEN "raised" ELSE "returned"
           /\ scans' = r.scans
    /\ UNCHANGED mods

(***************************************************************************)
(* Scan task: run() of SubjackScan / TKOSubsScan                           *)
(***************************************************************************)
NoTargets == [none |-> TRUE, list |-> <<>>]
TargetLists == {NoTargets} \cup [none : {FALSE}, list : SeqsUpTo(Hostnames, MaxTargets)]

\* `if hostnames:` is false for None and for the empty list
IsEmptyTargets(t) == t.none \/ Len(t.list) = 0

TaskIdle ==
    /\ task_state = "Pending"
    /\ targets = NoTargets
    /\ spawned = FALSE
    /\ parse_called = FALSE
    /\ tool_status = "none"
    /\ artifact = FALSE

InitTaskInputs ==
    /\ task_state = "Pending"
    /\ targets \in TargetLists
    /\ spawned = FALSE
    /\ parse_called = FALSE
    /\ tool_status = "none"
    /\ artifact = FALSE

\* requires(): the upstream dependency is declared, the task may run
Requires ==
    /\ task_state = "Pending"
    /\ task_state' = "Requirements-checked"
    /\ UNCHANGED <<targets, spawned, parse_called, tool_status, artifact>>

\* variant: no empty-target check, the process is always spawned
RunAlwaysSpawns ==
    /\ task_state = "Requirements-checked"
    /\ task_state' = "Running"
    /\ spawned' = TRUE
    /\ UNCHANGED <<targets, parse_called, tool_status, artifact>>

\* run(), up to the point where it blocks on the external process
Run ==
    /\ task_state = "Requirements-checked"
    /\ IF IsEmptyTargets(targets)
       THEN /\ task_state' = "Done"
            /\ UNCHANGED spawned
       ELSE /\ task_state' = "Running"
            /\ spawned' = TRUE
    /\ UNCHANGED <<targets, parse_called, tool_status, artifact>>

\* the external process completes successfully: run() calls parse_results()
ToolSucceeds ==
    /\ task_state = "Running"
    /\ tool_status' = "ok"
    /\ parse_called' = TRUE
    /\ task_state' = "Parsed"
    /\ UNCHANGED <<targets, spawned, artifact>>

\* non-zero exit or spawn failure: task failure, parse_results() is not called
ToolFails ==
    /\ task_state = "Running"
    /\ tool_status' = "failed"
    /\ task_state' = "Failed"
    /\ UNCHANGED <<targets, spawned, parse_called, artifact>>

\* parse_results() returns: the output artifact exists
ParseResults ==
    /\ task_state = "Parsed"
    /\ artifact' = TRUE
    /\ task_state' = "Done"
    /\ UNCHANGED <<targets, spawned, parse_called, tool_status>>

\* parse_results() cannot open the output file: fatal to the task
ParseFails ==
    /\ task_state = "Parsed"
    /\ task_state' = "Failed"
    /\ UNCHANGED <<targets, spawned, parse_called, tool_status, artifact>>

(***************************************************************************)
(* Specifications, one per component                                       *)
(***************************************************************************)
NoSnapshot == [exists |-> FALSE, dict |-> EmptyDict]

InitGate ==
    /\ tool_state \in ToolStateFiles
    /\ InitGateInputs /\ RegistryIdle /\ ScopeIdle /\ TaskIdle
NextGate ==
    MeetsRequirements /\ UNCHANGED <<tool_state, reg_vars, scope_vars, task_vars>>
SpecGate == InitGate /\ [][NextGate]_vars

InitRegistry ==
    /\ tool_state \in ToolStateFiles
    /\ GateIdle /\ InitRegistryInputs /\ ScopeIdle /\ TaskIdle
NextRegistry ==
    GetScans /\ UNCHANGED <<tool_state, gate_vars, scope_vars, task_vars>>
SpecRegistry == InitRegistry /\ [][NextRegistry]_vars

InitScope ==
    /\ tool_state = NoSnapshot
    /\ GateIdle /\ RegistryIdle /\ InitScopeInputs /\ TaskIdle
NextScope ==
    IsInscope /\ UNCHANGED <<tool_state, gate_vars, reg_vars, task_vars>>
SpecScope == InitScope /\ [][NextScope]_vars

InitTask ==
    /\ tool_state = NoSnapshot
    /\ GateIdle /\ RegistryIdle /\ ScopeIdle /\ InitTaskInputs
NextTask ==
    \/ Requires /\ UNCHANGED <<tool_state, gate_vars, reg_vars, scope_vars>>
    \/ Run /\ UNCHANGED <<tool_state, gate_vars, reg_vars, scope_vars>>
    \/ ToolSucceeds /\ UNCHANGED <<tool_state, gate_vars, reg_vars, scope_vars>>
    \/ ToolFails /\ UNCHANGED <<tool_state, gate_vars, reg_vars, scope_vars>>
    \/ ParseResults /\ UNCHANGED <<tool_state, gate_vars, reg_vars, scope_vars>>
    \/ ParseFails /\ UNCHANGED <<tool_state, gate_vars, reg_vars, scope_vars>>
SpecTask == InitTask /\ [][NextTask]_vars

(***************************************************************************)
(* Properties                                                              *)
(***************************************************************************)
Installed(tool) ==
    /\ tool_state.exists
    /\ tool \in DOMAIN tool_state.dict
    /\ tool_state.dict[tool].installed
AllInstalled(reqs) == \A k \in 1..Len(reqs) : Installed(reqs[k])
FirstMissing(reqs) ==
    CHOOSE k \in 1..Len(reqs) :
        ~Installed(reqs[k]) /\ \A l \in 1..(k - 1) : Installed(reqs[l])

\* C1: meets_requirements(R, exception=False) returns a boolean, and returns True
\* exactly when every tool of R is recorded with installed=true; a tool without an
\* entry, or with installed=false, makes it return False.
C1_BooleanGate ==
    (gate_pc = "returned" /\ ~exception) =>
        /\ gate_result.outcome \in {"True", "False"}
        /\ (gate_result.outcome = "True" <=> AllInstalled(requirements))

\* C2: meets_requirements(R, exception=True) never returns False: it returns True
\* when every tool is installed, and otherwise raises the precondition error at the
\* first tool that is not installed, having looked at no later tool, and the error
\* names that tool.
C2_RaisingGate ==
    (gate_pc = "returned" /\ exception) =>
        /\ gate_result.outcome # "False"
        /\ IF AllInstalled(requirements)
           THEN gate_result.outcome = "True"
           ELSE /\ gate_result.outcome = "RuntimeError"
                /\ gate_result.examined = FirstMissing(requirements)
                /\ gate_result.message = requirements[FirstMissing(requirements)]

InScans(class_name, module_name) ==
    /\ class_name \in DOMAIN scans
    /\ \E k \in 1..Len(scans[class_name]) :
          scans[class_name][k] = PackagePrefix \o module_name

\* the modules get_scans looks into: imported, name not starting with "_"
VisibleModules ==
    {name \in ModuleNames : mods[name].import = "ok" /\ ~startswith(name, <<"_">>)}
NoImportError == \A name \in ModuleNames : mods[name].import # "ImportError"

\* C3: with no snapshot on disk get_tool_state returns the absent value, and absent
\* means "no tool installed": meets_requirements(R, exception=False) returns False
\* for every non-empty R, and get_scans completes and prunes every scan class that
\* declares a non-empty requirements list.
C3_AbsentSnapshot ==
    ~tool_state.exists =>
        /\ get_tool_state.none
        /\ (reg_pc # "call" /\ NoImportError) =>
              /\ reg_pc = "returned"
              /\ \A name \in VisibleModules :
                    LET member == mods[name].member
                    IN  (/\ IsScanClass(member)
                         /\ member.has_requirements
                         /\ Len(member.requirements) > 0) =>
                            /\ meets_requirements(member.requirements, FALSE).outcome
                                  = "False"
                            /\ ~InScans(member.name, name)

MatchingBlocks ==
    {b \in 1..Len(scope_file.exclude) : re_search(scope_file.exclude[b].host, hostname)}
LastMatchingBlock == CHOOSE b \in MatchingBlocks : \A c \in MatchingBlocks : c <= b
Nested(allow, block) == re_search(block.host, allow_n(allow))

\* C4: is_inscope is default-allow: it returns True when no scope policy is
\* supplied, and when a policy is supplied but none of its exclude rules matches
\* the hostname, whatever the include rules are.
C4_DefaultAllow ==
    (scope_pc = "returned" /\ (~scope_file.supplied \/ MatchingBlocks = {})) =>
        in_scope = TRUE

C4_Witness ==
    /\ scope_pc = "returned"
    /\ scope_file.supplied
    /\ Len(scope_file.exclude) > 0
    /\ Len(scope_file.include) > 0
    /\ MatchingBlocks = {}
    /\ in_scope = TRUE

\* C5: when some exclude rule matches the hostname, is_inscope returns True exactly
\* when there is an include rule nested in a matching exclude rule whose original
\* pattern matches the hostname; so it returns False when the include list is empty.
C5_ExcludeUnlessNestedInclude ==
    (scope_pc = "returned" /\ scope_file.supplied /\ MatchingBlocks # {}) =>
        (in_scope <=>
            \E b \in MatchingBlocks : \E a \in 1..Len(scope_file.include) :
                /\ Nested(scope_file.include[a], scope_file.exclude[b])
                /\ re_search(scope_file.include[a].host, hostname))

\* C6: with exactly one exclude rule E and one include rule I nested in E, for every
\* hostname matched by E the verdict is whether I's original pattern matches the
\* hostname: with E = example\.com$ and I = ^admin\.example\.com$,
\* admin.example.com is in scope and www.example.com is not.
C6_SingleCarveOut ==
    (/\ scope_pc = "returned"
     /\ scope_file.supplied
     /\ Len(scope_file.exclude) = 1
     /\ Len(scope_file.include) = 1
     /\ Nested(scope_file.include[1], scope_file.exclude[1])
     /\ MatchingBlocks = {1}) =>
        /\ in_scope = re_search(scope_file.include[1].host, hostname)
        /\ (/\ scope_file.exclude[1].host = x_example
            /\ scope_file.include[1].host = i_admin) =>
               /\ hostname = h_admin => in_scope = TRUE
               /\ hostname = h_www => in_scope = FALSE

C6_Witness ==
    /\ scope_pc = "returned"
    /\ scope_file.supplied
    /\ scope_file.exclude = <<[host |-> x_example]>>
    /\ scope_file.include = <<[host |-> i_admin]>>
    /\ hostname = h_www
    /\ in_scope = FALSE

\* C7: a scan-named class that declares requirements is in the get_scans() result,
\* under its owning module, exactly when every tool it requires is installed (a
\* tool recorded as not installed, or not recorded, prunes it); a scan-named class
\* without a requirements attribute is always in the result.
C7_RegistryGating ==
    reg_pc = "returned" =>
        \A name \in VisibleModules :
            LET member == mods[name].member
            IN  IsScanClass(member) =>
                  IF member.has_requirements
                  THEN InScans(member.name, name) <=> AllInstalled(member.requirements)
                  ELSE InScans(member.name, name)

\* what get_scans returns when the modules that fail with ModuleNotFoundError are
\* replaced by importable modules without any scan class
WithoutMissingModules ==
    [name \in ModuleNames |->
        IF mods[name].import = "ModuleNotFoundError" THEN IdleModule ELSE mods[name]]
SomeModuleFails == \E name \in ModuleNames : mods[name].import # "ok"
SomeModuleMissing == \E name \in ModuleNames : mods[name].import = "ModuleNotFoundError"

TaskRunOver == task_state \in {"Done", "Failed"}

\* C9 (as stated): run() with an empty (or none) target list returns without
\* spawning the process and without calling parse_results(); with a non-empty list
\* the process is spawned and parse_results() is called afterwards; parse_results()
\* is never called when the process was not spawned.
C9_RunSpawnsThenParses ==
    /\ parse_called => spawned
    /\ (TaskRunOver /\ IsEmptyTargets(targets)) => (~spawned /\ ~parse_called)
    /\ (TaskRunOver /\ ~IsEmptyTargets(targets)) => (spawned /\ parse_called)

\* C9 (amended): as above, except that with a non-empty list parse_results() is
\* called afterwards once the spawned process has completed successfully.
C9_RunParsesOnSuccess ==
    /\ parse_called => spawned
    /\ (TaskRunOver /\ IsEmptyTargets(targets)) => (~spawned /\ ~parse_called)
    /\ (TaskRunOver /\ ~IsEmptyTargets(targets)) =>
          (spawned /\ (tool_status = "ok" => parse_called))

C9_Witness ==
    /\ task_state = "Done"
    /\ IsEmptyTargets(targets)
    /\ ~spawned
    /\ ~parse_called

\* C10: is_inscope is last-match-wins: when at least one exclude rule matches the
\* hostname, the returned verdict is the verdict of the last exclude rule, in
\* sequence order, that matches it, whatever earlier matching rules decided.
C10_LastMatchWins ==
    (scope_pc = "returned" /\ scope_file.supplied /\ MatchingBlocks # {}) =>
        in_scope = AllowLoop(scope_file.exclude[LastMatchingBlock],
                             scope_file.include, hostname, 1, TRUE)

C10_Witness ==
    /\ scope_pc = "returned"
    /\ scope_file.supplied
    /\ MatchingBlocks = {1, 2}
    /\ AllowLoop(scope_file.exclude[1], scope_file.include, hostname, 1, TRUE)
         # AllowLoop(scope_file.exclude[2], scope_file.include, hostname, 1, TRUE)
    /\ in_scope = AllowLoop(scope_file.exclude[2], scope_file.include, hostname, 1, TRUE)

====
